---- MODULE Spec2Model ----
(***************************************************************************)
(* Batch / job orchestration of the control-mapping service.               *)
(*                                                                         *)
(* The model follows app/core/job_manager.py (JobManager: start_batch,     *)
(* _execute_batch, start_job, _execute_job, cancel_job and the three       *)
(* commit helpers) and app/api/endpoints/mapping.py (get_batch_status).    *)
(* Every await of _execute_job is one step of the task that runs it, so    *)
(* the steps of different asyncio tasks interleave exactly at the awaits.  *)
(***************************************************************************)
EXTENDS Integers, Sequences, FiniteSets, TLC

\* ------------------------------------------------------------------ bounds
NumBatches == 1
JobsPerBatch == 2
MaxTasks == 2
MaxRows == 3

Batches == 1..NumBatches
Jobs == 1..(NumBatches * JobsPerBatch)
TaskIds == 1..MaxTasks

\* start_mapping creates the jobs of a batch together, one per provider, and
\* hands their ids to start_batch in creation order.
BatchJobIds(b) == [i \in 1..JobsPerBatch |-> (b - 1) * JobsPerBatch + i]

\* ------------------------------------------------------------------ enums
PENDING == "pending"
RUNNING == "running"
COMPLETED == "completed"
FAILED == "failed"
JobStatus == {PENDING, RUNNING, COMPLETED, FAILED}

\* ------------------------------------------------------------- error texts
ErrRefs == "Upload or configuration not found"
ErrNoText == "No extracted text found for uploaded file"
ErrTimeout == "Claude Code execution timed out"
ErrExecution == "Claude Code failed"
ErrParsing == "Could not extract JSON from Claude output"
ErrInvalid == "Invalid mapping output format"
ErrExport == "export failed"
ErrStore == "store error"
ToolErrors == {ErrTimeout, ErrExecution, ErrParsing}

VARIABLES
    jobs,             \* Job rows as committed in the store
    batches,          \* Batch rows as committed in the store
    upload,           \* the Upload/Configuration rows the jobs refer to
    tasks,            \* asyncio tasks created by the manager, by task id
    nextTask,         \* id of the next task create_task will return
    running_jobs,     \* JobManager._running_jobs: job id -> task id (0: absent)
    running_batches,  \* JobManager._running_batches: batch id -> task id (0: absent)
    dup_batch,        \* start_batch logged "already running" for the tracked handle
    run_failed,       \* history: some run of the job has ended by a failure
    cancel_ret,       \* what the last call of cancel_job returned ("none": no call)
    q_rows,           \* get_batch_status: the Job rows the query returned
    q_column,         \* get_batch_status: the stored Batch.status column
    resp,             \* get_batch_status: the response built
    run_in,           \* run_mapping: what the subprocess and the platform do
    run_out,          \* run_mapping: what the call returned or raised
    pp_in,            \* post-processing: the tool's payload and the configuration
    pp_out,           \* post-processing: the result exported, the output validated
    ex_in,            \* export: framework name and provider of each job
    ex_pc,            \* export: where each job's run is between lines 185 and 210
    files,            \* export: the files of the output directory, with their owner
    ex_paths,         \* export: the paths recorded on each Job row
    calls             \* the runner's thread pool: the run_mapping calls under way

vars == <<jobs, batches, upload, tasks, nextTask, running_jobs, running_batches,
          dup_batch, run_failed, cancel_ret, q_rows, q_column, resp,
          run_in, run_out, pp_in, pp_out, ex_in, ex_pc, files, ex_paths, calls>>
queryVars == <<q_rows, q_column, resp>>
exportVars == <<ex_in, ex_pc, files, ex_paths>>
toolVars == <<run_in, run_out, pp_in, pp_out, exportVars, calls>>
managerVars == <<jobs, batches, upload, tasks, nextTask, running_jobs,
                 running_batches, dup_batch, run_failed, cancel_ret>>

\* ------------------------------------------------------------- Job rows
NewJob ==
    [status |-> PENDING, progress_percentage |-> 0,
     progress_message |-> "Job queued...", error_message |-> "",
     output_json_path |-> "", completed_at |-> FALSE]

NewBatch == [status |-> PENDING, completed_at |-> FALSE]

\* _update_job_status: "" is a None status or message, <<>> a None percentage.
UpdateJobStatus(job, status, percentage, message) ==
    [job EXCEPT
        !.status = IF status # "" THEN status ELSE @,
        !.progress_percentage = IF percentage # <<>> THEN percentage[1] ELSE @,
        !.progress_message = IF message # "" THEN message ELSE @]

CompleteJob(job, json_path) ==
    [job EXCEPT
        !.status = COMPLETED,
        !.progress_percentage = 100,
        !.progress_message = "Mapping completed successfully",
        !.output_json_path = json_path,
        !.completed_at = TRUE]

FailJob(job, error_message) ==
    [job EXCEPT
        !.status = FAILED,
        !.error_message = error_message,
        !.progress_message = "Job failed"]

\* ExportService._get_filename: framework and provider name the file.
JsonPath(j) == "framework_provider.json"

\* ------------------------------------------------------------------ tasks
\* kind: "batch" (a driver), "job" or "free"; id: the batch or job id; idx: the
\* driver's place in job_ids; pc: the await the task is at; err: str(e) on the
\* way to _fail_job; res: the payload run_mapping returned; outcome: how the
\* task ended; log: the job ids it has called _execute_job for.
NoTask ==
    [kind |-> "free", id |-> 0, idx |-> 0, pc |-> "none", err |-> "",
     res |-> "none", outcome |-> "none", log |-> <<>>]

\* A task whose done callback has run: nothing refers to it any more.
Gone == [NoTask EXCEPT !.kind = "gone"]

InFlight(t) == tasks[t].kind \in {"batch", "job"} /\ tasks[t].outcome = "none"

\* The position after `i` in the driver's loop over job_ids.
NextIndex(i) == i + 1

\* The loop of _execute_batch taken over reversed(job_ids).
CurJobReversed(t) ==
    IF tasks[t].kind = "job" THEN tasks[t].id
    ELSE BatchJobIds(tasks[t].id)[JobsPerBatch + 1 - tasks[t].idx]

\* The job a task is executing: its own, or the one at its place in job_ids.
CurJob(t) ==
    IF tasks[t].kind = "job" THEN tasks[t].id
    ELSE BatchJobIds(tasks[t].id)[tasks[t].idx]

\* _execute_job has returned: a job task is done, a batch driver goes on
\* with the next job id, or, after the last one, stamps the batch.
AfterRun(tr) ==
    IF tr.kind = "job"
    THEN [tr EXCEPT !.pc = "end", !.outcome = "done", !.err = "", !.res = "none"]
    ELSE IF tr.idx < JobsPerBatch
         THEN [tr EXCEPT !.idx = NextIndex(tr.idx), !.pc = "load", !.err = "",
                         !.res = "none"]
         ELSE [tr EXCEPT !.pc = "stamp", !.err = "", !.res = "none"]

\* The task goes to the except handler with str(e) = err.
Raise(tr, err) == [tr EXCEPT !.pc = "fail", !.err = err]

At(t, pc) == InFlight(t) /\ tasks[t].pc = pc

\* No call of run_mapping is under way.
NoRun ==
    [proc |-> "none", alias |-> FALSE, wait_expired |-> FALSE,
     stderr |-> "", stdout |-> [shape |-> "text", is_error |-> FALSE,
                                result |-> "absent", text |-> <<>>]]

NoResult == [kind |-> "none", value |-> "", detail |-> ""]

\* A payload dict: "" is an absent key.
EmptyResult ==
    [Framework |-> "", Name |-> "", Provider |-> "", Description |-> "",
     Requirements |-> [present |-> FALSE, items |-> <<>>]]

\* No payload is being post-processed.
NoPayload ==
    [provider |-> "", framework_full_name |-> "", framework_description |-> "",
     enable_subgroup |-> FALSE, result |-> EmptyResult]

NoOutput == [kind |-> "none", error |-> "", result |-> EmptyResult,
             mapping_output |-> EmptyResult]

\* No export is under way for a job, and no path is recorded on its row.
NoExport == [framework_name |-> <<>>, provider |-> <<>>]
NoPaths == [json |-> <<>>, excel |-> <<>>]

\* The run_mapping calls the pool model follows.
NumCalls == 3
Calls == 1..NumCalls

\* No call of run_mapping has been made under this number.
NoCall == [state |-> "idle", waited |-> 0, ran |-> 0, outcome |-> "none"]

Init ==
    /\ jobs = [j \in Jobs |-> NewJob]
    /\ batches = [b \in Batches |-> NewBatch]
    /\ upload \in {"ok", "notext", "missing"}
    /\ tasks = [t \in TaskIds |-> NoTask]
    /\ nextTask = 1
    /\ running_jobs = [j \in Jobs |-> 0]
    /\ running_batches = [b \in Batches |-> 0]
    /\ dup_batch = [b \in Batches |-> FALSE]
    /\ run_failed = [j \in Jobs |-> FALSE]
    /\ cancel_ret = "none"
    /\ q_rows = <<>>
    /\ q_column = PENDING
    /\ resp = [status |-> "none", overall_progress |-> 0]
    /\ run_in = NoRun
    /\ run_out = NoResult
    /\ pp_in = NoPayload
    /\ pp_out = NoOutput
    /\ ex_in = [j \in Jobs |-> NoExport]
    /\ ex_pc = [j \in Jobs |-> "none"]
    /\ files = {}
    /\ ex_paths = [j \in Jobs |-> NoPaths]
    /\ calls = [i \in Calls |-> NoCall]

\* ------------------------------------------------------------ the manager
\* start_batch without its `if batch_id in self._running_batches` guard.
StartBatchUnguarded(b) ==
    /\ UNCHANGED <<jobs, batches, upload, running_jobs, run_failed, cancel_ret,
                   queryVars, toolVars>>
    /\ nextTask <= MaxTasks
    /\ tasks' = [tasks EXCEPT ![nextTask] =
           [NoTask EXCEPT !.kind = "batch", !.id = b, !.idx = 1, !.pc = "load"]]
    /\ running_batches' = [running_batches EXCEPT ![b] = nextTask]
    /\ nextTask' = nextTask + 1
    /\ UNCHANGED dup_batch

\* start_batch, lines 43-53. Without a free task id only the guarded return
\* is left to take.
StartBatch(b) ==
    /\ UNCHANGED <<jobs, batches, upload, running_jobs, run_failed, cancel_ret,
                   queryVars, toolVars>>
    /\ IF running_batches[b] # 0
       THEN /\ dup_batch' = [dup_batch EXCEPT ![b] = TRUE]
            /\ UNCHANGED <<tasks, nextTask, running_batches>>
       ELSE /\ nextTask <= MaxTasks
            /\ tasks' = [tasks EXCEPT ![nextTask] =
                   [NoTask EXCEPT !.kind = "batch", !.id = b, !.idx = 1,
                                  !.pc = "load"]]
            /\ running_batches' = [running_batches EXCEPT ![b] = nextTask]
            /\ nextTask' = nextTask + 1
            /\ UNCHANGED dup_batch

\* start_job, lines 75-85. A tracked job id returns at once and changes nothing.
StartJob(j) ==
    /\ running_jobs[j] = 0
    /\ nextTask <= MaxTasks
    /\ tasks' = [tasks EXCEPT ![nextTask] =
           [NoTask EXCEPT !.kind = "job", !.id = j, !.pc = "load"]]
    /\ running_jobs' = [running_jobs EXCEPT ![j] = nextTask]
    /\ nextTask' = nextTask + 1
    /\ UNCHANGED <<jobs, batches, upload, running_batches, dup_batch, run_failed,
                   cancel_ret, queryVars, toolVars>>

\* cancel_job with `if task:` in place of `if task and not task.done():`.
CancelJobNoDoneCheck(j) ==
    /\ UNCHANGED <<jobs, batches, upload, nextTask, running_jobs, running_batches,
                   dup_batch, run_failed, queryVars, toolVars>>
    /\ IF running_jobs[j] # 0
       THEN /\ tasks' = [tasks EXCEPT ![running_jobs[j]].outcome = "cancelled"]
            /\ cancel_ret' = "true"
       ELSE /\ cancel_ret' = "false"
            /\ UNCHANGED tasks

\* cancel_job, lines 290-298. task.cancel() throws CancelledError into the task
\* at the await it is at; CancelledError is no Exception, so the handler of
\* _execute_job does not see it, the task ends cancelled and no row changes.
\* `await task` returns only then. An untracked id, or a tracked task that is
\* done, returns False.
CancelJob(j) ==
    /\ UNCHANGED <<jobs, batches, upload, nextTask, running_jobs, running_batches,
                   dup_batch, run_failed, queryVars, toolVars>>
    /\ IF running_jobs[j] # 0 /\ InFlight(running_jobs[j])
       THEN /\ tasks' = [tasks EXCEPT ![running_jobs[j]].outcome = "cancelled"]
            /\ cancel_ret' = "true"
       ELSE /\ cancel_ret' = "false"
            /\ UNCHANGED tasks

\* The done callbacks: pop the id from the map.
JobTaskDone(t) ==
    /\ tasks[t].kind = "job"
    /\ tasks[t].outcome # "none"
    /\ running_jobs' = [running_jobs EXCEPT ![tasks[t].id] = 0]
    /\ tasks' = [tasks EXCEPT ![t] = Gone]
    /\ UNCHANGED <<jobs, batches, upload, nextTask, running_batches, dup_batch,
                   run_failed, cancel_ret,
                   queryVars, toolVars>>

BatchTaskDone(t) ==
    /\ tasks[t].kind = "batch"
    /\ tasks[t].outcome # "none"
    /\ running_batches' = [running_batches EXCEPT ![tasks[t].id] = 0]
    /\ dup_batch' = [dup_batch EXCEPT ![tasks[t].id] = FALSE]
    /\ tasks' = [tasks EXCEPT ![t] = Gone]
    /\ UNCHANGED <<jobs, batches, upload, nextTask, running_jobs, run_failed,
                   cancel_ret, queryVars, toolVars>>

\* ------------------------------------------------- _execute_job, step by step
\* Every store call may raise (the store is unavailable); `ok` is its outcome.

\* Lines 92-102: load the Job, then its Upload and Configuration. The job ids
\* come from start_mapping, so the Job row itself is always found.
Load(t) ==
    /\ At(t, "load")
    /\ UNCHANGED <<jobs, batches, upload, nextTask, running_jobs, running_batches,
                   dup_batch, cancel_ret, queryVars, toolVars>>
    /\ LET j == CurJob(t)
           tr == [tasks[t] EXCEPT !.log = Append(@, j)]
       IN \E outcome \in {"job_error", "refs_error", "loaded"} :
            CASE outcome = "job_error" ->
                   \* session.get(Job) raised: `job` is unbound in the handler,
                   \* which then does nothing, and _execute_job returns.
                   /\ tasks' = [tasks EXCEPT ![t] = AfterRun(tr)]
                   /\ run_failed' = [run_failed EXCEPT ![j] = TRUE]
              [] outcome = "refs_error" ->
                   /\ tasks' = [tasks EXCEPT ![t] = Raise(tr, ErrStore)]
                   /\ UNCHANGED run_failed
              [] outcome = "loaded" ->
                   /\ tasks' = [tasks EXCEPT ![t] =
                          IF upload = "missing"
                          THEN [tr EXCEPT !.pc = "fail_inline", !.err = ErrRefs]
                          ELSE [tr EXCEPT !.pc = "set_running"]]
                   /\ UNCHANGED run_failed

\* Lines 105-122: commit RUNNING, then look at the extracted text.
SetRunning(t) ==
    /\ At(t, "set_running")
    /\ UNCHANGED <<batches, upload, nextTask, running_jobs, running_batches,
                   dup_batch, run_failed, cancel_ret,
                   queryVars, toolVars>>
    /\ LET j == CurJob(t) IN
       \E ok \in BOOLEAN :
          IF ok
          THEN /\ jobs' = [jobs EXCEPT ![j] =
                      UpdateJobStatus(@, RUNNING, <<>>, "Starting mapping process...")]
               /\ tasks' = [tasks EXCEPT ![t] =
                      IF upload = "notext"
                      THEN [@ EXCEPT !.pc = "fail_inline", !.err = ErrNoText]
                      ELSE [@ EXCEPT !.pc = "p10"]]
          ELSE /\ tasks' = [tasks EXCEPT ![t] = Raise(@, ErrStore)]
               /\ UNCHANGED jobs

\* Lines 142-146.
Progress10(t) ==
    /\ At(t, "p10")
    /\ UNCHANGED <<batches, upload, nextTask, running_jobs, running_batches,
                   dup_batch, run_failed, cancel_ret,
                   queryVars, toolVars>>
    /\ LET j == CurJob(t) IN
       \E ok \in BOOLEAN :
          IF ok
          THEN /\ jobs' = [jobs EXCEPT ![j] =
                      UpdateJobStatus(@, "", <<10>>, "Executing Claude Code...")]
               /\ tasks' = [tasks EXCEPT ![t].pc = "tool"]
          ELSE /\ tasks' = [tasks EXCEPT ![t] = Raise(@, ErrStore)]
               /\ UNCHANGED jobs

\* Lines 149-153: run_mapping returns a payload or raises one of its errors.
RunTool(t) ==
    /\ At(t, "tool")
    /\ UNCHANGED <<jobs, batches, upload, nextTask, running_jobs, running_batches,
                   dup_batch, run_failed, cancel_ret,
                   queryVars, toolVars>>
    /\ \E r \in {"valid", "invalid"} \cup ToolErrors :
          tasks' = [tasks EXCEPT ![t] =
              IF r \in ToolErrors THEN Raise(@, r)
              ELSE [@ EXCEPT !.res = r, !.pc = "p70"]]

\* Lines 155-183: commit 70, post-process and validate the payload.
Progress70(t) ==
    /\ At(t, "p70")
    /\ UNCHANGED <<batches, upload, nextTask, running_jobs, running_batches,
                   dup_batch, run_failed, cancel_ret,
                   queryVars, toolVars>>
    /\ LET j == CurJob(t) IN
       \E ok \in BOOLEAN :
          IF ok
          THEN /\ jobs' = [jobs EXCEPT ![j] =
                      UpdateJobStatus(@, "", <<70>>, "Processing output...")]
               /\ tasks' = [tasks EXCEPT ![t] =
                      IF @.res = "invalid" THEN Raise(@, ErrInvalid)
                      ELSE [@ EXCEPT !.pc = "p80"]]
          ELSE /\ tasks' = [tasks EXCEPT ![t] = Raise(@, ErrStore)]
               /\ UNCHANGED jobs

\* Lines 185-202: commit 80, then write the two files (export_json and
\* export_excel hold no await of their own).
Progress80(t) ==
    /\ At(t, "p80")
    /\ UNCHANGED <<batches, upload, nextTask, running_jobs, running_batches,
                   dup_batch, run_failed, cancel_ret,
                   queryVars, toolVars>>
    /\ LET j == CurJob(t) IN
       \E ok \in BOOLEAN :
          IF ok
          THEN /\ jobs' = [jobs EXCEPT ![j] =
                      UpdateJobStatus(@, "", <<80>>, "Generating output files...")]
               /\ \E exported \in BOOLEAN :
                     tasks' = [tasks EXCEPT ![t] =
                         IF exported THEN [@ EXCEPT !.pc = "complete"]
                         ELSE Raise(@, ErrExport)]
          ELSE /\ tasks' = [tasks EXCEPT ![t] = Raise(@, ErrStore)]
               /\ UNCHANGED jobs

\* Lines 205-210.
Complete(t) ==
    /\ At(t, "complete")
    /\ UNCHANGED <<batches, upload, nextTask, running_jobs, running_batches,
                   dup_batch, run_failed, cancel_ret,
                   queryVars, toolVars>>
    /\ LET j == CurJob(t) IN
       \E ok \in BOOLEAN :
          IF ok
          THEN /\ jobs' = [jobs EXCEPT ![j] = CompleteJob(@, JsonPath(j))]
               /\ tasks' = [tasks EXCEPT ![t] = AfterRun(@)]
          ELSE /\ tasks' = [tasks EXCEPT ![t] = Raise(@, ErrStore)]
               /\ UNCHANGED jobs

\* Lines 101 and 121: _fail_job called inside the try block.
FailInline(t) ==
    /\ At(t, "fail_inline")
    /\ UNCHANGED <<batches, upload, nextTask, running_jobs, running_batches,
                   dup_batch, cancel_ret, queryVars, toolVars>>
    /\ LET j == CurJob(t) IN
       \E ok \in BOOLEAN :
          IF ok
          THEN /\ jobs' = [jobs EXCEPT ![j] = FailJob(@, tasks[t].err)]
               /\ tasks' = [tasks EXCEPT ![t] = AfterRun(@)]
               /\ run_failed' = [run_failed EXCEPT ![j] = TRUE]
          ELSE /\ tasks' = [tasks EXCEPT ![t] = Raise(@, ErrStore)]
               /\ UNCHANGED <<jobs, run_failed>>

\* Lines 214-217: the except handler. Its own commit is not guarded: when it
\* raises, the exception leaves _execute_job.
FailHandler(t) ==
    /\ At(t, "fail")
    /\ UNCHANGED <<batches, upload, nextTask, running_jobs, running_batches,
                   dup_batch, cancel_ret, queryVars, toolVars>>
    /\ LET j == CurJob(t) IN
       /\ run_failed' = [run_failed EXCEPT ![j] = TRUE]
       /\ \E ok \in BOOLEAN :
          IF ok
          THEN /\ jobs' = [jobs EXCEPT ![j] = FailJob(@, tasks[t].err)]
               /\ tasks' = [tasks EXCEPT ![t] = AfterRun(@)]
          ELSE /\ tasks' = [tasks EXCEPT ![t].outcome = "raised"]
               /\ UNCHANGED jobs

\* Lines 60-66: _execute_batch stamps the Batch row after the loop.
Stamp(t) ==
    /\ At(t, "stamp")
    /\ UNCHANGED <<jobs, upload, nextTask, running_jobs, running_batches,
                   dup_batch, run_failed, cancel_ret,
                   queryVars, toolVars>>
    /\ \E ok \in BOOLEAN :
          IF ok
          THEN /\ batches' = [batches EXCEPT ![tasks[t].id].completed_at = TRUE]
               /\ tasks' = [tasks EXCEPT ![t].pc = "end", ![t].outcome = "done"]
          ELSE /\ tasks' = [tasks EXCEPT ![t].outcome = "raised"]
               /\ UNCHANGED batches

Next ==
    \/ \E b \in Batches : StartBatch(b)
    \/ \E j \in Jobs : StartJob(j)
    \/ \E j \in Jobs : CancelJob(j)
    \/ \E t \in TaskIds : JobTaskDone(t)
    \/ \E t \in TaskIds : BatchTaskDone(t)
    \/ \E t \in TaskIds : Load(t)
    \/ \E t \in TaskIds : SetRunning(t)
    \/ \E t \in TaskIds : Progress10(t)
    \/ \E t \in TaskIds : RunTool(t)
    \/ \E t \in TaskIds : Progress70(t)
    \/ \E t \in TaskIds : Progress80(t)
    \/ \E t \in TaskIds : Complete(t)
    \/ \E t \in TaskIds : FailInline(t)
    \/ \E t \in TaskIds : FailHandler(t)
    \/ \E t \in TaskIds : Stamp(t)

Spec == Init /\ [][Next]_vars

\* ------------------------------------------------------------ restart
\* init_db, called by lifespan at startup: it prepares the tables and leaves
\* the rows of earlier runs as they are.
InitDb(rows) == rows

\* A startup that marks the jobs found RUNNING as FAILED.
RestartFailingRunning ==
    /\ jobs' = [j \in Jobs |->
                   IF jobs[j].status = RUNNING
                   THEN FailJob(jobs[j], "interrupted by restart") ELSE jobs[j]]
    /\ batches' = batches
    /\ tasks' = [t \in TaskIds |->
                    IF tasks[t].kind \in {"batch", "job"} THEN Gone ELSE tasks[t]]
    /\ running_jobs' = [j \in Jobs |-> 0]
    /\ running_batches' = [b \in Batches |-> 0]
    /\ dup_batch' = [b \in Batches |-> FALSE]
    /\ cancel_ret' = "none"
    /\ UNCHANGED <<upload, nextTask, run_failed, queryVars, toolVars>>

\* The process stops and starts again: its asyncio tasks are gone with it,
\* JobManager.__init__ builds both maps empty and lifespan runs init_db on the
\* store. Nothing else runs at startup.
Restart ==
    /\ jobs' = InitDb(jobs)
    /\ batches' = InitDb(batches)
    /\ tasks' = [t \in TaskIds |->
                    IF tasks[t].kind \in {"batch", "job"} THEN Gone ELSE tasks[t]]
    /\ running_jobs' = [j \in Jobs |-> 0]
    /\ running_batches' = [b \in Batches |-> 0]
    /\ dup_batch' = [b \in Batches |-> FALSE]
    /\ cancel_ret' = "none"
    /\ UNCHANGED <<upload, nextTask, run_failed, queryVars, toolVars>>

NextRestart == Next \/ Restart

SpecRestart == Init /\ [][NextRestart]_vars

\* ------------------------------------------------------ get_batch_status
\* mapping.py lines 123-165: the loop over the batch's Job rows, then the
\* overall progress and the derived status.
ProgressValues == {0, 40, 60, 100}
Rows == [status : JobStatus, progress_percentage : ProgressValues]

RECURSIVE CountStatus(_, _)
CountStatus(rows, s) ==
    IF rows = <<>> THEN 0
    ELSE (IF Head(rows).status = s THEN 1 ELSE 0) + CountStatus(Tail(rows), s)

RECURSIVE TotalProgress(_)
TotalProgress(rows) ==
    IF rows = <<>> THEN 0
    ELSE Head(rows).progress_percentage + TotalProgress(Tail(rows))

OverallProgressRounded(rows) ==
    IF Len(rows) > 0
    THEN (2 * TotalProgress(rows) + Len(rows)) \div (2 * Len(rows))
    ELSE 0

OverallProgress(rows) ==
    IF Len(rows) > 0 THEN TotalProgress(rows) \div Len(rows) ELSE 0

BatchStatusLoosePartial(rows) ==
    LET completed_count == CountStatus(rows, COMPLETED)
        failed_count == CountStatus(rows, FAILED)
        running_count == CountStatus(rows, RUNNING)
    IN IF completed_count = Len(rows) THEN "completed"
       ELSE IF failed_count = Len(rows) THEN "failed"
       ELSE IF failed_count > 0 THEN "partial"
       ELSE IF running_count > 0 \/ completed_count > 0 THEN "running"
       ELSE "pending"

BatchStatusOf(rows) ==
    LET completed_count == CountStatus(rows, COMPLETED)
        failed_count == CountStatus(rows, FAILED)
        running_count == CountStatus(rows, RUNNING)
    IN IF completed_count = Len(rows) THEN "completed"
       ELSE IF failed_count = Len(rows) THEN "failed"
       ELSE IF failed_count > 0 /\ completed_count + failed_count = Len(rows)
            THEN "partial"
       ELSE IF running_count > 0 \/ completed_count > 0 THEN "running"
       ELSE "pending"

\* The rows `select(Job).where(Job.batch_id == batch_id)` returns from the store.
BatchRows(b) ==
    [i \in 1..JobsPerBatch |->
        [status |-> jobs[BatchJobIds(b)[i]].status,
         progress_percentage |-> jobs[BatchJobIds(b)[i]].progress_percentage]]

\* One call of the endpoint on the rows and the Batch.status column it is given.
GetBatchStatus ==
    /\ resp.status = "none"
    /\ resp' = [status |-> BatchStatusOf(q_rows),
                overall_progress |-> OverallProgress(q_rows)]
    /\ UNCHANGED <<managerVars, q_rows, q_column, toolVars>>

InitStatus ==
    /\ jobs = [j \in Jobs |-> NewJob]
    /\ batches = [b \in Batches |-> NewBatch]
    /\ upload = "ok"
    /\ tasks = [t \in TaskIds |-> NoTask]
    /\ nextTask = 1
    /\ running_jobs = [j \in Jobs |-> 0]
    /\ running_batches = [b \in Batches |-> 0]
    /\ dup_batch = [b \in Batches |-> FALSE]
    /\ run_failed = [j \in Jobs |-> FALSE]
    /\ cancel_ret = "none"
    /\ q_rows \in UNION {[1..n -> Rows] : n \in 0..MaxRows}
    /\ q_column \in {PENDING, COMPLETED}
    /\ resp = [status |-> "none", overall_progress |-> 0]
    /\ run_in = NoRun
    /\ run_out = NoResult
    /\ pp_in = NoPayload
    /\ pp_out = NoOutput
    /\ ex_in = [j \in Jobs |-> NoExport]
    /\ ex_pc = [j \in Jobs |-> "none"]
    /\ files = {}
    /\ ex_paths = [j \in Jobs |-> NoPaths]
    /\ calls = [i \in Calls |-> NoCall]

NextStatus == GetBatchStatus

SpecStatus == InitStatus /\ [][NextStatus]_vars

\* ------------------------------------------------------------ run_mapping
\* claude_runner.py. The text the tool writes is a sequence of chunks: prose, a
\* balanced {...} span or another JSON value, each bare or inside a ```json or a
\* ``` fence. Bodies: "A" an object in the mapping format (it has "Framework"
\* and "Requirements"), "B" another object, "bad" a balanced span that is no
\* JSON, "scalar" a JSON value that is no object (a list, a number, a string,
\* null), "prose" text without braces.
MaxChunks == 2

Objects == {"A", "B"}
Bodies == Objects \cup {"bad", "scalar", "prose"}
Wraps == {"none", "json_fence", "fence"}
Chunks == [wrap : Wraps, body : Bodies]
Texts == UNION {[1..n -> Chunks] : n \in 0..MaxChunks}

\* stdout is a text, or the envelope {"type": "result", "is_error": ..,
\* "result": ..} of the CLI whose result is null, an object ("R") or a string
\* (then `text` is that string).
EmptyStdout == [shape |-> "text", is_error |-> FALSE, result |-> "absent", text |-> <<>>]
Stdouts ==
    [shape : {"text"}, is_error : {FALSE}, result : {"absent"}, text : Texts]
    \cup [shape : {"envelope"}, is_error : BOOLEAN, result : {"null", "dict"},
          text : {<<>>}]
    \cup [shape : {"envelope"}, is_error : BOOLEAN, result : {"str"}, text : Texts]

\* proc: what the subprocess does; alias: asyncio.TimeoutError is the builtin
\* TimeoutError (Python 3.11 and later) or a class of its own (3.9, 3.10);
\* wait_expired: wait_for(timeout + 30) ran out before the worker thread was done.
RunInputs ==
    [proc : {"timeout", "nofile", "oserror"}, alias : BOOLEAN,
     wait_expired : BOOLEAN, stderr : {""}, stdout : {EmptyStdout}]
    \cup [proc : {"exit_nonzero", "exit0"}, alias : BOOLEAN,
          wait_expired : BOOLEAN, stderr : {"", "err"}, stdout : Stdouts]

\* exceptions.py
ClaudeExecutionError == "ClaudeExecutionError"
ClaudeTimeoutError == "ClaudeTimeoutError"
OutputParsingError == "OutputParsingError"

Returned(v) == [kind |-> "return", value |-> v, detail |-> ""]
Raised(e, d) == [kind |-> "raise", value |-> e, detail |-> d]

\* json.loads on a text: it parses when the text is one bare JSON value.
JsonLoads(text) ==
    IF Len(text) = 1 /\ text[1].wrap = "none" /\ text[1].body \in Objects \cup {"scalar"}
    THEN text[1].body
    ELSE "JSONDecodeError"

\* The first of the chunks `idxs`, in text order, whose body starts with "{"
\* and parses to a dict; 0 when there is none.
FirstParsed(text, idxs) ==
    LET ok == {i \in idxs : text[i].body \in Objects}
    IN IF ok = {} THEN 0 ELSE CHOOSE i \in ok : \A k \in ok : i <= k

\* _find_json_in_text: the ```json blocks, the ``` blocks (a ```json block
\* matches there with the content "json {..", which does not start with "{"),
\* the greedy first-"{"-to-last-"}" patterns, then the scan for balanced spans.
FindJsonInText(text) ==
    LET fencedJson == {i \in DOMAIN text : text[i].wrap = "json_fence"}
        fenced == {i \in DOMAIN text : text[i].wrap = "fence"}
        braces == {i \in DOMAIN text : text[i].body \in Objects \cup {"bad"}}
        p1 == FirstParsed(text, fencedJson)
        p2 == FirstParsed(text, fenced)
        greedy == IF Cardinality(braces) = 1 THEN FirstParsed(text, braces) ELSE 0
        scan == FirstParsed(text, braces)
    IN IF p1 # 0 THEN Returned(text[p1].body)
       ELSE IF p2 # 0 THEN Returned(text[p2].body)
       ELSE IF greedy # 0 THEN Returned(text[greedy].body)
       ELSE IF scan # 0 THEN Returned(text[scan].body)
       ELSE Raised(OutputParsingError, "Could not extract valid JSON from Claude output")

\* _extract_json, lines 176-213.
ExtractJson(output) ==
    IF output.shape = "text" /\ output.text = <<>>
    THEN Raised(OutputParsingError, "Claude returned empty output")
    ELSE IF output.shape = "envelope"
    THEN IF output.is_error
         THEN Raised(ClaudeExecutionError, "Claude returned error")
         ELSE IF output.result = "dict" THEN Returned("R")
         ELSE IF output.result = "str"
              THEN IF JsonLoads(output.text) # "JSONDecodeError"
                   THEN Returned(JsonLoads(output.text))
                   ELSE FindJsonInText(output.text)
         ELSE Returned("envelope")
    ELSE IF JsonLoads(output.text) # "JSONDecodeError"
         THEN Returned(JsonLoads(output.text))
         ELSE FindJsonInText(output.text)

\* _run_subprocess_sync: what the worker thread hands back.
RunSubprocessSync(in) ==
    CASE in.proc = "timeout" -> "TimeoutError"
      [] in.proc = "nofile" -> "FileNotFoundError"
      [] in.proc = "oserror" -> "OSError"
      [] OTHER -> "result"

\* Line 101: stderr, else the head of stdout, else "Unknown error".
ErrorDetail(in) ==
    IF in.stderr # "" THEN "stderr"
    ELSE IF in.stdout # EmptyStdout THEN "stdout[:500]"
    ELSE "Unknown error"

\* run_mapping with the output extracted before the exit code is looked at.
RunMappingExtractFirst(in) ==
    LET got == RunSubprocessSync(in)
        parsed == ExtractJson(in.stdout)
    IN IF in.wait_expired
       THEN Raised(ClaudeTimeoutError, "Claude Code execution timed out")
       ELSE IF got = "TimeoutError" /\ in.alias
       THEN Raised(ClaudeTimeoutError, "Claude Code execution timed out")
       ELSE IF got = "FileNotFoundError"
       THEN Raised(ClaudeExecutionError, "Claude Code CLI not found")
       ELSE IF got # "result"
       THEN Raised(ClaudeExecutionError, "Failed to execute Claude Code")
       ELSE IF parsed.kind = "return"
       THEN parsed
       ELSE IF in.proc = "exit_nonzero"
       THEN Raised(ClaudeExecutionError, ErrorDetail(in))
       ELSE parsed

\* run_mapping, lines 74-107.
RunMappingResult(in) ==
    LET got == RunSubprocessSync(in)
    IN IF in.wait_expired
       THEN Raised(ClaudeTimeoutError, "Claude Code execution timed out")
       ELSE IF got = "TimeoutError" /\ in.alias
       THEN Raised(ClaudeTimeoutError, "Claude Code execution timed out")
       ELSE IF got = "FileNotFoundError"
       THEN Raised(ClaudeExecutionError, "Claude Code CLI not found")
       ELSE IF got # "result"
       THEN Raised(ClaudeExecutionError, "Failed to execute Claude Code")
       ELSE IF in.proc = "exit_nonzero"
       THEN Raised(ClaudeExecutionError, ErrorDetail(in))
       ELSE ExtractJson(in.stdout)

RunMapping ==
    /\ run_out.kind = "none"
    /\ run_out' = RunMappingResult(run_in)
    /\ UNCHANGED <<managerVars, queryVars, run_in, pp_in, pp_out, exportVars, calls>>

InitRunner ==
    /\ jobs = [j \in Jobs |-> NewJob]
    /\ batches = [b \in Batches |-> NewBatch]
    /\ upload = "ok"
    /\ tasks = [t \in TaskIds |-> NoTask]
    /\ nextTask = 1
    /\ running_jobs = [j \in Jobs |-> 0]
    /\ running_batches = [b \in Batches |-> 0]
    /\ dup_batch = [b \in Batches |-> FALSE]
    /\ run_failed = [j \in Jobs |-> FALSE]
    /\ cancel_ret = "none"
    /\ q_rows = <<>>
    /\ q_column = PENDING
    /\ resp = [status |-> "none", overall_progress |-> 0]
    /\ run_in \in RunInputs
    /\ run_out = NoResult
    /\ pp_in = NoPayload
    /\ pp_out = NoOutput
    /\ ex_in = [j \in Jobs |-> NoExport]
    /\ ex_pc = [j \in Jobs |-> "none"]
    /\ files = {}
    /\ ex_paths = [j \in Jobs |-> NoPaths]
    /\ calls = [i \in Calls |-> NoCall]

NextRunner == RunMapping

SpecRunner == InitRunner /\ [][NextRunner]_vars

\* ------------------------------------------- _execute_job, lines 161-183
\* The payload run_mapping returned is post-processed in place, validated
\* against schemas/output.py and later exported as it is after post-processing.
MaxReqs == 2

\* Attribute: SubGroup is an optional field of the schema.
Attributes == {<<>>, <<[SubGroup |-> FALSE]>>, <<[SubGroup |-> TRUE]>>}

\* A requirement entry of the payload: whether it has a "SubGroup" key of its
\* own, its Attributes, and whether it fits the Requirement schema.
Requirements == [SubGroup : BOOLEAN, Attributes : Attributes, ok : BOOLEAN]

ToolResults ==
    [Framework : {"", "tool"}, Name : {"", "tool"}, Provider : {"", "tool"},
     Description : {"", "tool"},
     Requirements : {[present |-> FALSE, items |-> <<>>]}
        \cup [present : {TRUE},
              items : UNION {[1..n -> Requirements] : n \in 0..MaxReqs}]]

PostInputs ==
    [provider : {"aws", "AWS", "other"}, framework_full_name : {"", "config"},
     framework_description : {"", "config"}, enable_subgroup : BOOLEAN,
     result : ToolResults]

\* str.lower on a provider key.
Lower(provider_key) == IF provider_key = "AWS" THEN "aws" ELSE provider_key

\* constants.py: PROVIDER_DISPLAY_NAMES.get(provider_key.lower(), provider_key).
GetProviderDisplayName(provider_key) ==
    IF Lower(provider_key) = "aws" THEN "AWS" ELSE provider_key

\* Lines 174-177: `del req["SubGroup"]` on each entry of Requirements.
RemoveSubGroup(reqs) ==
    [reqs EXCEPT !.items = [i \in DOMAIN reqs.items |->
                                [reqs.items[i] EXCEPT !.SubGroup = FALSE]]]

\* The post-processing with the tool's Provider kept when it gave one.
PostProcessKeepProvider(in) ==
    LET r1 == IF in.result.Provider # "" THEN in.result
              ELSE [in.result EXCEPT !.Provider = GetProviderDisplayName(in.provider)]
        r2 == IF in.framework_full_name # ""
              THEN [r1 EXCEPT !.Name = in.framework_full_name] ELSE r1
        r3 == IF in.framework_description # ""
              THEN [r2 EXCEPT !.Description = in.framework_description] ELSE r2
    IN IF ~in.enable_subgroup /\ r3.Requirements.present
       THEN [r3 EXCEPT !.Requirements = RemoveSubGroup(@)]
       ELSE r3

\* Lines 163-177.
PostProcess(in) ==
    LET r1 == [in.result EXCEPT !.Provider = GetProviderDisplayName(in.provider)]
        r2 == IF in.framework_full_name # ""
              THEN [r1 EXCEPT !.Name = in.framework_full_name] ELSE r1
        r3 == IF in.framework_description # ""
              THEN [r2 EXCEPT !.Description = in.framework_description] ELSE r2
    IN IF ~in.enable_subgroup /\ r3.Requirements.present
       THEN [r3 EXCEPT !.Requirements = RemoveSubGroup(@)]
       ELSE r3

\* MappingOutput(**result) accepts the payload.
SchemaValid(result) ==
    /\ result.Framework # ""
    /\ result.Name # ""
    /\ result.Provider # ""
    /\ result.Requirements.present
    /\ \A i \in DOMAIN result.Requirements.items : result.Requirements.items[i].ok

\* The MappingOutput built: Requirement has no SubGroup field, so the key is
\* dropped there; Attribute has one and keeps it.
ParsedOutput(result) ==
    [result EXCEPT !.Requirements.items =
        [i \in DOMAIN @ |-> [@[i] EXCEPT !.SubGroup = FALSE]]]

\* _validate_output, lines 219-224, after the post-processing.
ValidateOutput(in) ==
    LET result == PostProcess(in)
    IN IF SchemaValid(result)
       THEN [kind |-> "return", error |-> "", result |-> result,
             mapping_output |-> ParsedOutput(result)]
       ELSE [kind |-> "raise", error |-> ErrInvalid, result |-> result,
             mapping_output |-> EmptyResult]

ProcessOutput ==
    /\ pp_out.kind = "none"
    /\ pp_out' = ValidateOutput(pp_in)
    /\ UNCHANGED <<managerVars, queryVars, run_in, run_out, pp_in, exportVars, calls>>

InitOutput ==
    /\ jobs = [j \in Jobs |-> NewJob]
    /\ batches = [b \in Batches |-> NewBatch]
    /\ upload = "ok"
    /\ tasks = [t \in TaskIds |-> NoTask]
    /\ nextTask = 1
    /\ running_jobs = [j \in Jobs |-> 0]
    /\ running_batches = [b \in Batches |-> 0]
    /\ dup_batch = [b \in Batches |-> FALSE]
    /\ run_failed = [j \in Jobs |-> FALSE]
    /\ cancel_ret = "none"
    /\ q_rows = <<>>
    /\ q_column = PENDING
    /\ resp = [status |-> "none", overall_progress |-> 0]
    /\ run_in = NoRun
    /\ run_out = NoResult
    /\ pp_in \in PostInputs
    /\ pp_out = NoOutput
    /\ ex_in = [j \in Jobs |-> NoExport]
    /\ ex_pc = [j \in Jobs |-> "none"]
    /\ files = {}
    /\ ex_paths = [j \in Jobs |-> NoPaths]
    /\ calls = [i \in Calls |-> NoCall]

NextOutput == ProcessOutput

SpecOutput == InitOutput /\ [][NextOutput]_vars

\* ------------------------------------------------ export_service.py, export
\* Two jobs reach the export step of _execute_job (lines 185-210), each with
\* the framework name of its configuration and its own provider. Names are
\* strings over the word characters "a" and "b", the underscore and the space.
MaxName == 2
NumExportJobs == 2

ExportJobs == 1..NumExportJobs
Chars == {"a", "_", " "}
FrameworkNames == UNION {[1..n -> Chars] : n \in 0..MaxName}
ProviderKeys == {<<"a">>, <<"b">>}

\* The uuid of a job, as a string.
JobId(j) == ToString(j)

\* re.sub(r'[^\w\-]', '_', name)
ReplaceSpecial(name) ==
    [i \in DOMAIN name |-> IF name[i] \in {"a", "b", "_"} THEN name[i] ELSE "_"]

\* re.sub(r'_+', '_', name)
RECURSIVE CollapseUnderscores(_)
CollapseUnderscores(name) ==
    IF Len(name) < 2 THEN name
    ELSE IF name[1] = "_" /\ name[2] = "_" THEN CollapseUnderscores(Tail(name))
    ELSE <<name[1]>> \o CollapseUnderscores(Tail(name))

\* name.strip('_')
RECURSIVE StripUnderscores(_)
StripUnderscores(name) ==
    IF name = <<>> THEN name
    ELSE IF Head(name) = "_" THEN StripUnderscores(Tail(name))
    ELSE IF name[Len(name)] = "_"
         THEN StripUnderscores(SubSeq(name, 1, Len(name) - 1))
    ELSE name

SanitizeFilename(name) == StripUnderscores(CollapseUnderscores(ReplaceSpecial(name)))

\* ExportService._get_filename: the path is output_dir / this name.
GetFilename(job_id, extension, framework_name, provider) ==
    IF framework_name # <<>> /\ provider # <<>>
    THEN SanitizeFilename(framework_name) \o <<"_">> \o SanitizeFilename(provider)
            \o <<".", extension>>
    ELSE <<job_id, ".", extension>>

\* open(output_path, 'w') and the dump: the file at the path now holds the
\* result of job j, whatever it held before.
WriteFile(fs, path, j) ==
    {f \in fs : f.path # path} \cup {[path |-> path, owner |-> j]}

ExportPaths(j) ==
    [json |-> GetFilename(JobId(j), "json", ex_in[j].framework_name, ex_in[j].provider),
     excel |-> GetFilename(JobId(j), "xlsx", ex_in[j].framework_name, ex_in[j].provider)]

\* Lines 191-202: export_json, then export_excel; either may raise, and the
\* run then goes to the except handler.
ExportFiles(j) ==
    /\ ex_pc[j] = "p80"
    /\ \E outcome \in {"json_raises", "excel_raises", "exported"} :
          CASE outcome = "json_raises" ->
                 /\ ex_pc' = [ex_pc EXCEPT ![j] = "failed"]
                 /\ UNCHANGED files
            [] outcome = "excel_raises" ->
                 /\ ex_pc' = [ex_pc EXCEPT ![j] = "failed"]
                 /\ files' = WriteFile(files, ExportPaths(j).json, j)
            [] outcome = "exported" ->
                 /\ ex_pc' = [ex_pc EXCEPT ![j] = "complete"]
                 /\ files' = WriteFile(WriteFile(files, ExportPaths(j).json, j),
                                       ExportPaths(j).excel, j)
    /\ UNCHANGED <<managerVars, queryVars, run_in, run_out, pp_in, pp_out,
                   ex_in, ex_paths, calls>>

\* Lines 205-210: _complete_job records the two paths on the Job row.
CompleteExport(j) ==
    /\ ex_pc[j] = "complete"
    /\ \E ok \in BOOLEAN :
          IF ok
          THEN /\ ex_paths' = [ex_paths EXCEPT ![j] = ExportPaths(j)]
               /\ ex_pc' = [ex_pc EXCEPT ![j] = "done"]
          ELSE /\ ex_pc' = [ex_pc EXCEPT ![j] = "failed"]
               /\ UNCHANGED ex_paths
    /\ UNCHANGED <<managerVars, queryVars, run_in, run_out, pp_in, pp_out,
                   ex_in, files, calls>>

InitExport ==
    /\ jobs = [j \in Jobs |-> NewJob]
    /\ batches = [b \in Batches |-> NewBatch]
    /\ upload = "ok"
    /\ tasks = [t \in TaskIds |-> NoTask]
    /\ nextTask = 1
    /\ running_jobs = [j \in Jobs |-> 0]
    /\ running_batches = [b \in Batches |-> 0]
    /\ dup_batch = [b \in Batches |-> FALSE]
    /\ run_failed = [j \in Jobs |-> FALSE]
    /\ cancel_ret = "none"
    /\ q_rows = <<>>
    /\ q_column = PENDING
    /\ resp = [status |-> "none", overall_progress |-> 0]
    /\ run_in = NoRun
    /\ run_out = NoResult
    /\ pp_in = NoPayload
    /\ pp_out = NoOutput
    /\ ex_in \in [ExportJobs -> [framework_name : FrameworkNames, provider : ProviderKeys]]
    /\ ex_pc = [j \in ExportJobs |-> "p80"]
    /\ files = {}
    /\ ex_paths = [j \in ExportJobs |-> NoPaths]
    /\ calls = [i \in Calls |-> NoCall]

NextExport ==
    \/ \E j \in ExportJobs : ExportFiles(j)
    \/ \E j \in ExportJobs : CompleteExport(j)

SpecExport == InitExport /\ [][NextExport]_vars

\* ------------------------------------------- claude_runner.py, the thread pool
\* All calls of run_mapping share the one runner and its executor. Time is
\* counted in units of 30 seconds: wait_for allows `timeout + 30`, one unit more
\* than the subprocess gets. A call is idle (not made), queued (submitted, no
\* worker thread yet), running (a worker runs its subprocess) or finished (its
\* worker is free again); waited is the time since run_in_executor, ran the
\* time its subprocess has run, outcome what run_mapping gave its caller.
MaxWorkers == 2
Grace == 1
ClaudeTimeout == 2

Busy == {i \in Calls : calls[i].state = "running"}
Queued == {i \in Calls : calls[i].state = "queued"}

\* wait_for is still waiting for the call.
Awaited(i) == calls[i].state \in {"queued", "running"} /\ calls[i].outcome = "none"

\* Lines 77-81: run_in_executor puts the work item on the executor's queue. The
\* calls are numbered in the order they are made.
Submit(i) ==
    /\ calls[i].state = "idle"
    /\ \A k \in Calls : k < i => calls[k].state # "idle"
    /\ calls' = [calls EXCEPT ![i].state = "queued"]
    /\ UNCHANGED <<managerVars, queryVars, run_in, run_out, pp_in, pp_out, exportVars>>

\* A free worker thread takes the oldest work item and starts subprocess.run.
StartWork(i) ==
    /\ calls[i].state = "queued"
    /\ \A k \in Queued : i <= k
    /\ Cardinality(Busy) < MaxWorkers
    /\ calls' = [calls EXCEPT ![i].state = "running"]
    /\ UNCHANGED <<managerVars, queryVars, run_in, run_out, pp_in, pp_out, exportVars>>

\* Lines 136-148: the subprocess exits before its timeout; the worker is free.
\* A caller that is still waiting gets the result.
FinishWork(i) ==
    /\ calls[i].state = "running"
    /\ calls[i].ran < ClaudeTimeout
    /\ calls' = [calls EXCEPT ![i].state = "finished",
                              ![i].outcome = IF @ = "none" THEN "result" ELSE @]
    /\ UNCHANGED <<managerVars, queryVars, run_in, run_out, pp_in, pp_out, exportVars>>

\* Lines 150-152: subprocess.run raises TimeoutExpired after `timeout`.
SubprocessTimeout(i) ==
    /\ calls[i].state = "running"
    /\ calls[i].ran = ClaudeTimeout
    /\ calls' = [calls EXCEPT ![i].state = "finished",
                              ![i].outcome = IF @ = "none" THEN "subprocess_timeout" ELSE @]
    /\ UNCHANGED <<managerVars, queryVars, run_in, run_out, pp_in, pp_out, exportVars>>

\* Lines 77-86: wait_for runs out `timeout + 30` after run_in_executor and
\* run_mapping raises ClaudeTimeoutError. A work item still on the queue is
\* cancelled; a subprocess already running goes on and keeps its worker.
WaitForExpires(i) ==
    /\ Awaited(i)
    /\ calls[i].waited = ClaudeTimeout + Grace
    /\ calls' = [calls EXCEPT ![i].outcome = "wait_timeout",
                              ![i].state = IF @ = "queued" THEN "finished" ELSE @]
    /\ UNCHANGED <<managerVars, queryVars, run_in, run_out, pp_in, pp_out, exportVars>>

\* One unit of time passes. Nothing that is due is left waiting: a free worker
\* has taken the next work item, and every timeout that is due has fired.
Tick ==
    /\ Busy \cup Queued # {}
    /\ Queued # {} => Cardinality(Busy) = MaxWorkers
    /\ \A i \in Busy : calls[i].ran < ClaudeTimeout
    /\ \A i \in Calls : Awaited(i) => calls[i].waited < ClaudeTimeout + Grace
    /\ calls' = [i \in Calls |->
          [calls[i] EXCEPT
              !.waited = IF Awaited(i) THEN @ + 1 ELSE @,
              !.ran = IF calls[i].state = "running" THEN @ + 1 ELSE @]]
    /\ UNCHANGED <<managerVars, queryVars, run_in, run_out, pp_in, pp_out, exportVars>>

InitPool ==
    /\ jobs = [j \in Jobs |-> NewJob]
    /\ batches = [b \in Batches |-> NewBatch]
    /\ upload = "ok"
    /\ tasks = [t \in TaskIds |-> NoTask]
    /\ nextTask = 1
    /\ running_jobs = [j \in Jobs |-> 0]
    /\ running_batches = [b \in Batches |-> 0]
    /\ dup_batch = [b \in Batches |-> FALSE]
    /\ run_failed = [j \in Jobs |-> FALSE]
    /\ cancel_ret = "none"
    /\ q_rows = <<>>
    /\ q_column = PENDING
    /\ resp = [status |-> "none", overall_progress |-> 0]
    /\ run_in = NoRun
    /\ run_out = NoResult
    /\ pp_in = NoPayload
    /\ pp_out = NoOutput
    /\ ex_in = [j \in Jobs |-> NoExport]
    /\ ex_pc = [j \in Jobs |-> "none"]
    /\ files = {}
    /\ ex_paths = [j \in Jobs |-> NoPaths]
    /\ calls = [i \in Calls |-> NoCall]

NextPool ==
    \/ \E i \in Calls : Submit(i)
    \/ \E i \in Calls : StartWork(i)
    \/ \E i \in Calls : FinishWork(i)
    \/ \E i \in Calls : SubprocessTimeout(i)
    \/ \E i \in Calls : WaitForExpires(i)
    \/ Tick

SpecPool == InitPool /\ [][NextPool]_vars

\* ------------------------------------------------------------ properties
Terminal == {COMPLETED, FAILED}

\* The steps of _execute_job after the Job row is loaded.
RunPcs == {"set_running", "p10", "tool", "p70", "p80", "complete",
           "fail_inline", "fail"}

\* The steps of _execute_job between its commit of RUNNING and its last commit.
ActivePcs == {"p10", "tool", "p70", "p80", "complete"}

\* A run of job j is in progress: some task is inside _execute_job(j), has
\* committed RUNNING and has not yet reached its last commit.
Executing(t, j) == InFlight(t) /\ tasks[t].pc \in ActivePcs /\ CurJob(t) = j

Executions(j) == {t \in TaskIds : Executing(t, j)}

Drivers(b) == {t \in TaskIds : tasks[t].kind = "batch" /\ tasks[t].id = b}

IsPrefix(s, full) ==
    /\ Len(s) <= Len(full)
    /\ \A i \in 1..Len(s) : s[i] = full[i]

\* C1: once a job's committed status is COMPLETED or FAILED, no step changes it.
C1_TerminalAbsorbing ==
    [][\A j \in Jobs :
          jobs[j].status \in Terminal => jobs'[j].status = jobs[j].status]_vars

\* C2: the committed progress of a job never decreases, and it is 100 exactly
\* when the committed status is COMPLETED.
C2_ProgressMonotone ==
    [][\A j \in Jobs :
          /\ jobs'[j].progress_percentage >= jobs[j].progress_percentage
          /\ (jobs'[j].progress_percentage = 100) <=> (jobs'[j].status = COMPLETED)
      ]_vars

\* C3: the step that ends a failing run leaves the job FAILED with a non-empty
\* error message and its progress as last committed, and a job one of whose
\* runs has failed is never COMPLETED afterwards.
C3_FailedRunEndsFailed ==
    [][\A j \in Jobs :
          /\ (run_failed'[j] /\ ~run_failed[j]) =>
                /\ jobs'[j].status = FAILED
                /\ jobs'[j].error_message # ""
                /\ jobs'[j].progress_percentage = jobs[j].progress_percentage
          /\ run_failed'[j] => jobs'[j].status # COMPLETED
      ]_vars

\* C4: no batch driver ends by an exception that left a job run, and a driver
\* that ended has called _execute_job for every job id of the batch.
C4_BatchDriverSurvives ==
    \A t \in TaskIds :
        tasks[t].kind = "batch" =>
            /\ ~(tasks[t].outcome = "raised" /\ tasks[t].pc = "fail")
            /\ tasks[t].outcome \in {"done", "raised"}
                  => tasks[t].log = BatchJobIds(tasks[t].id)

\* C5: at most one job of a batch has a run in progress.
C5_OneJobOfBatchAtATime ==
    \A b \in Batches :
        Cardinality({j \in Jobs :
            (\E i \in 1..JobsPerBatch : BatchJobIds(b)[i] = j)
            /\ Executions(j) # {}}) <= 1

\* C6: a batch driver enters _execute_job for the job ids in the order of the
\* list it was given, and enters position i+1 (the first step that can move
\* that job out of PENDING) only when its loop has left position i, that is
\* when the run of the job at position i has returned.
C6_BatchRunsInListOrder ==
    \A t \in TaskIds :
        tasks[t].kind = "batch" =>
            /\ IsPrefix(tasks[t].log, BatchJobIds(tasks[t].id))
            /\ Len(tasks[t].log) <= tasks[t].idx
            /\ tasks[t].pc \in RunPcs => Len(tasks[t].log) = tasks[t].idx

\* C6 witness: the driver is running the second job of the list and the first
\* job's run has left that job in a terminal state.
C6_Witness ==
    \E t \in TaskIds :
        /\ tasks[t].kind = "batch"
        /\ tasks[t].idx = 2
        /\ tasks[t].pc = "tool"
        /\ tasks[t].log = <<BatchJobIds(tasks[t].id)[1], BatchJobIds(tasks[t].id)[2]>>
        /\ jobs[BatchJobIds(tasks[t].id)[1]].status \in Terminal
        /\ jobs[BatchJobIds(tasks[t].id)[2]].status = RUNNING

\* C7: at most one execution of a job id and at most one driver of a batch id
\* are in flight.
C7_OneTaskPerId ==
    /\ \A j \in Jobs : Cardinality(Executions(j)) <= 1
    /\ \A b \in Batches : Cardinality({t \in Drivers(b) : InFlight(t)}) <= 1

StatusByRule(rows) ==
    LET Every(s) == \A i \in DOMAIN rows : rows[i].status = s
        Some(s) == \E i \in DOMAIN rows : rows[i].status = s
    IN IF Every(COMPLETED) THEN "completed"
       ELSE IF Every(FAILED) THEN "failed"
       ELSE IF Some(FAILED) /\ \A i \in DOMAIN rows : rows[i].status \in Terminal
            THEN "partial"
       ELSE IF Some(RUNNING) \/ Some(COMPLETED) THEN "running"
       ELSE "pending"

Reorderings(n) ==
    {f \in [1..n -> 1..n] : \A i, k \in 1..n : f[i] = f[k] => i = k}

\* C9: the batch status returned is the one the precedence rule gives for the
\* member jobs' statuses; reordering the rows does not change it, and neither
\* does the stored Batch.status column.
C9_BatchStatusByRule ==
    resp.status # "none" =>
        /\ resp.status = StatusByRule(q_rows)
        /\ \A f \in Reorderings(Len(q_rows)) :
              BatchStatusOf([i \in 1..Len(q_rows) |-> q_rows[f[i]]]) = resp.status

\* C9 witness: one COMPLETED and one FAILED job, the stored column still
\* "pending", reported "partial".
C9_Witness ==
    /\ Len(q_rows) = 2
    /\ q_rows[1].status = COMPLETED
    /\ q_rows[2].status = FAILED
    /\ q_column = PENDING
    /\ resp.status = "partial"

\* The sum of the progress percentages of the first k rows.
RECURSIVE SumFirst(_, _)
SumFirst(rows, k) ==
    IF k = 0 THEN 0 ELSE SumFirst(rows, k - 1) + rows[k].progress_percentage

\* C10: the overall progress is the sum of the jobs' percentages divided by
\* their number and truncated ([40, 60] gives 50), and lies in 0..100.
C10_OverallProgressTruncatedMean ==
    resp.status # "none" =>
        /\ resp.overall_progress \in 0..100
        /\ Len(q_rows) > 0 =>
              /\ Len(q_rows) * resp.overall_progress <= SumFirst(q_rows, Len(q_rows))
              /\ SumFirst(q_rows, Len(q_rows))
                    < Len(q_rows) * (resp.overall_progress + 1)
        /\ (Len(q_rows) = 2 /\ q_rows[1].progress_percentage = 40
               /\ q_rows[2].progress_percentage = 60) => resp.overall_progress = 50

\* C10 witness: [40, 40, 0] has the mean 26.67 and is reported as 26.
C10_Witness ==
    /\ Len(q_rows) = 3
    /\ q_rows[1].progress_percentage = 40
    /\ q_rows[2].progress_percentage = 40
    /\ q_rows[3].progress_percentage = 0
    /\ resp.status # "none"
    /\ resp.overall_progress = 26

\* The step is a call of cancel_job: its return value is new, or a task has
\* just been cancelled.
CancelCalled ==
    \/ cancel_ret' # cancel_ret
    \/ \E t \in TaskIds : tasks[t].outcome # "cancelled" /\ tasks'[t].outcome = "cancelled"

\* C11: cancel_job returns true only for a tracked task that has not finished,
\* which is cancelled and has ended when the call returns; for an untracked job
\* or a finished task it returns false and changes no job, batch or bookkeeping
\* state.
C11_CancelOnlyLiveTrackedTask ==
    [][CancelCalled =>
          /\ cancel_ret' \in {"true", "false"}
          /\ <<jobs, batches, running_jobs, running_batches>>' =
                <<jobs, batches, running_jobs, running_batches>>
          /\ cancel_ret' = "true" =>
                \E j \in Jobs :
                   /\ running_jobs[j] # 0
                   /\ tasks[running_jobs[j]].kind = "job"
                   /\ tasks[running_jobs[j]].outcome = "none"
                   /\ tasks' = [tasks EXCEPT ![running_jobs[j]].outcome = "cancelled"]
          /\ cancel_ret' = "false" => tasks' = tasks]_vars

\* C11 witness: cancel_job has answered false while a finished task is still
\* tracked under its job id.
C11_Witness ==
    /\ cancel_ret = "false"
    /\ \E j \in Jobs :
          /\ running_jobs[j] # 0
          /\ tasks[running_jobs[j]].outcome = "done"
          /\ jobs[j].status = COMPLETED

\* C12: a job whose run was cancelled while in progress has a terminal
\* persisted status; it is not left RUNNING.
C12_CancelledJobIsTerminal ==
    \A t \in TaskIds :
        (tasks[t].kind = "job" /\ tasks[t].outcome = "cancelled"
            /\ tasks[t].pc \in ActivePcs)
        => jobs[tasks[t].id].status \in Terminal

\* is_job_running, line 281.
IsJobRunning(j) == running_jobs[j] # 0

\* C13: is_job_running(j) is true whenever a run of job j is in flight, whether
\* start_job or a batch driver started it.
C13_IsRunningAccurate ==
    \A j \in Jobs : Executions(j) # {} => IsJobRunning(j)

\* C14: when the subprocess runs past the configured timeout, run_mapping
\* raises ClaudeTimeoutError, not the ClaudeExecutionError of a non-zero exit
\* and not OutputParsingError.
C14_TimeoutRaisesTimeoutKind ==
    (run_out.kind # "none" /\ run_in.proc = "timeout") =>
        /\ run_out.kind = "raise"
        /\ run_out.value = ClaudeTimeoutError
        /\ run_out.value \notin {ClaudeExecutionError, OutputParsingError}

\* C15: extraction applies its strategies in order and the first success wins:
\* (a) an envelope is unwrapped to its result (an object as is, a JSON string
\* parsed again) and is never handed back itself; (b) stdout that is the
\* mapping object is returned as is; (c) otherwise the first ```json block that
\* parses wins over any bare span, without fences a balanced span that parses
\* is returned, and when no candidate parses the call raises OutputParsingError.
C15_ExtractionOrder ==
    LET o == run_in.stdout
        whole == JsonLoads(o.text)
        jsonFenced == {i \in DOMAIN o.text :
                          o.text[i].wrap = "json_fence" /\ o.text[i].body \in Objects}
        candidates == {i \in DOMAIN o.text : o.text[i].body \in Objects}
    IN (run_out.kind # "none" /\ run_in.proc = "exit0" /\ ~run_in.wait_expired) =>
        /\ (o.shape = "envelope" /\ ~o.is_error) =>
              /\ o.result = "dict" => run_out = Returned("R")
              /\ (o.result = "str" /\ whole # "JSONDecodeError") =>
                    run_out = Returned(whole)
              /\ run_out # Returned("envelope")
        /\ (o.shape = "text" /\ whole = "A") => run_out = Returned("A")
        /\ (o.shape = "text" /\ whole \notin Objects) =>
              /\ jsonFenced # {} =>
                    \E i \in jsonFenced :
                       /\ \A k \in jsonFenced : i <= k
                       /\ run_out = Returned(o.text[i].body)
              /\ (candidates # {} /\ \A i \in DOMAIN o.text : o.text[i].wrap = "none") =>
                    \E i \in candidates : run_out = Returned(o.text[i].body)
              /\ candidates = {} =>
                    (run_out.kind = "raise" /\ run_out.value = OutputParsingError)

\* Some requirement of the payload carries a SubGroup, as a key of its own or
\* inside one of its Attributes.
HasSubGroup(result) ==
    \E i \in DOMAIN result.Requirements.items :
        \/ result.Requirements.items[i].SubGroup
        \/ \E k \in DOMAIN result.Requirements.items[i].Attributes :
              result.Requirements.items[i].Attributes[k].SubGroup

\* C16: with enable_subgroup off, no requirement of the validated output, nor
\* of the result that is exported, carries a SubGroup at any level, whatever
\* the tool returned.
C16_NoSubGroupWhenDisabled ==
    (pp_out.kind = "return" /\ ~pp_in.enable_subgroup) =>
        /\ ~HasSubGroup(pp_out.mapping_output)
        /\ ~HasSubGroup(pp_out.result)

\* C17: whenever a batch's completed_at is set, every job of the batch has the
\* persisted status COMPLETED or FAILED.
C17_StampAfterAllJobsFinished ==
    \A b \in Batches :
        batches[b].completed_at =>
            \A i \in 1..JobsPerBatch : jobs[BatchJobIds(b)[i]].status \in Terminal

\* C18: no job of a started batch stays PENDING or RUNNING for good: when the
\* driver of a batch has ended, every job it was handed is COMPLETED or FAILED.
C18_DriverLeavesEveryJobFinished ==
    \A t \in TaskIds :
        (tasks[t].kind = "batch" /\ tasks[t].outcome # "none") =>
            \A i \in 1..JobsPerBatch :
                jobs[BatchJobIds(tasks[t].id)[i]].status \in Terminal

\* Task t is inside the run of job j, after the Job row was loaded.
Holding(t, j) == InFlight(t) /\ tasks[t].pc \in RunPcs /\ CurJob(t) = j

\* C19: a restart leaves both maps empty and no task alive, and changes no Job
\* or Batch row; a job that is RUNNING while no task is inside its run stays
\* RUNNING (until a later start_job or start_batch runs it again).
C19_RestartAbandonsRunningJobs ==
    [][/\ Restart =>
             /\ \A j \in Jobs : running_jobs'[j] = 0
             /\ \A b \in Batches : running_batches'[b] = 0
             /\ \A t \in TaskIds : tasks'[t].kind \notin {"batch", "job"}
             /\ jobs' = jobs
             /\ batches' = batches
       /\ \A j \in Jobs :
             (jobs[j].status = RUNNING /\ \A t \in TaskIds : ~Holding(t, j))
             => jobs'[j].status = RUNNING]_vars

\* C19 witness: job 1 was RUNNING at progress 70 when the process stopped; no
\* task is left, the maps are empty, no run has failed or been cancelled, and
\* the row is still RUNNING at 70.
C19_Witness ==
    /\ jobs[1].status = RUNNING
    /\ jobs[1].progress_percentage = 70
    /\ \E t \in TaskIds : tasks[t] = Gone
    /\ \A t \in TaskIds : tasks[t].kind \notin {"batch", "job"}
    /\ \A j \in Jobs : running_jobs[j] = 0 /\ ~run_failed[j]
    /\ \A b \in Batches : running_batches[b] = 0
    /\ cancel_ret = "none"

\* C20: the commits of a run follow the order RUNNING at progress 0 with the
\* message "Starting mapping process...", then 10, 70, 80 and COMPLETED at 100;
\* a reader sees only the progress values 0, 10, 70, 80 and 100.
C20_CheckpointOrder ==
    [][\A j \in Jobs :
          LET a == jobs[j]
              b == jobs'[j]
          IN /\ b.progress_percentage \in {0, 10, 70, 80, 100}
             /\ (a # b /\ b.progress_message = "Starting mapping process...") =>
                   (b.status = RUNNING /\ b.progress_percentage = 0)
             /\ b.progress_percentage # a.progress_percentage =>
                   <<a.progress_percentage, b.progress_percentage>> \in
                       {<<0, 10>>, <<10, 70>>, <<70, 80>>, <<80, 100>>}
             /\ (b.status = COMPLETED /\ a.status # COMPLETED) =>
                   (a.progress_percentage = 80 /\ b.progress_percentage = 100)]_vars

\* The step of task t ends its run of the job it is executing: _execute_job
\* returns to its caller or an exception (or a cancellation) leaves it.
RunEnds(t) ==
    /\ InFlight(t)
    /\ tasks[t].pc \in RunPcs \cup {"load"}
    /\ \/ tasks'[t].outcome # "none"
       \/ tasks'[t].pc \in {"stamp", "end"}
       \/ tasks'[t].idx # tasks[t].idx

\* C21: the files are written only for a payload that passed validation; a run
\* whose payload fails validation ends with the job FAILED and the message
\* "Invalid mapping output format", and no step of that run records a path.
C21_ExportOnlyAfterValidation ==
    [][\A t \in TaskIds :
          /\ (InFlight(t) /\ tasks[t].pc \in {"p80", "complete"}) =>
                tasks[t].res = "valid"
          /\ (InFlight(t) /\ tasks[t].res = "invalid" /\ tasks'[t] # tasks[t]) =>
                jobs'[CurJob(t)].output_json_path = jobs[CurJob(t)].output_json_path
          /\ (At(t, "fail") /\ tasks[t].err = ErrInvalid /\ RunEnds(t)) =>
                /\ jobs'[CurJob(t)].status = FAILED
                /\ jobs'[CurJob(t)].error_message = ErrInvalid]_vars

\* The part of C21 about the order of validation and export alone.
C21_OrderOnly ==
    [][\A t \in TaskIds :
          /\ (InFlight(t) /\ tasks[t].pc \in {"p80", "complete"}) =>
                tasks[t].res = "valid"
          /\ (InFlight(t) /\ tasks[t].res = "invalid" /\ tasks'[t] # tasks[t]) =>
                jobs'[CurJob(t)].output_json_path = jobs[CurJob(t)].output_json_path]_vars

\* The message _execute_job passes to _fail_job for the Upload it found.
MissingMessage == IF upload = "missing" THEN ErrRefs ELSE ErrNoText

\* C22: a run of a job whose Upload or Configuration is missing, or whose
\* Upload has no extracted text, ends with the job FAILED and the message of
\* that condition, and never reaches the call of the external tool.
C22_MissingInputFailsBeforeTool ==
    [][upload # "ok" =>
          \A t \in TaskIds :
             /\ ~At(t, "tool")
             /\ RunEnds(t) =>
                   /\ jobs'[CurJob(t)].status = FAILED
                   /\ jobs'[CurJob(t)].error_message = MissingMessage]_vars

\* The part of C22 about the tool alone.
C22_ToolNotReached ==
    upload # "ok" => \A t \in TaskIds : ~At(t, "tool")

\* run_mapping has received the exit code of a subprocess that exited non-zero.
NonZeroExitSeen ==
    run_out.kind # "none" /\ run_in.proc = "exit_nonzero" /\ ~run_in.wait_expired

\* C23 as stated: a non-zero exit makes run_mapping raise ClaudeExecutionError
\* whatever stdout holds, with the detail stderr, or the head of stdout when
\* stderr is empty.
C23_NonZeroExitDetailStderrOrStdout ==
    NonZeroExitSeen =>
        /\ run_out.kind = "raise"
        /\ run_out.value = ClaudeExecutionError
        /\ run_out.detail = IF run_in.stderr # "" THEN "stderr" ELSE "stdout[:500]"

\* C23, amended: a non-zero exit makes run_mapping raise ClaudeExecutionError
\* whatever stdout holds, with the detail stderr, or the head of stdout when
\* stderr is empty, or "Unknown error" when both are empty.
C23_NonZeroExitFails ==
    NonZeroExitSeen =>
        /\ run_out.kind = "raise"
        /\ run_out.value = ClaudeExecutionError
        /\ run_out.detail =
              IF run_in.stderr # "" THEN "stderr"
              ELSE IF run_in.stdout # EmptyStdout THEN "stdout[:500]"
              ELSE "Unknown error"

\* C23 witness: the subprocess exited non-zero with an empty stderr and a
\* stdout that is the mapping object; the call raised with the head of stdout.
C23_Witness ==
    /\ NonZeroExitSeen
    /\ run_in.stderr = ""
    /\ run_in.stdout.shape = "text"
    /\ JsonLoads(run_in.stdout.text) = "A"
    /\ run_out = Raised(ClaudeExecutionError, "stdout[:500]")

\* C24: in the result exported for a job, Provider is the display name of the
\* job's own provider ("AWS" for the key aws in any case, the key itself for an
\* unlisted provider) whatever the tool returned; Name and Description are the
\* configuration's when it sets them and the tool's when it does not.
C24_ProviderAndNamesStandardized ==
    pp_out.kind = "return" =>
        /\ pp_out.result.Provider =
              IF pp_in.provider \in {"aws", "AWS"} THEN "AWS" ELSE pp_in.provider
        /\ pp_out.result.Name =
              IF pp_in.framework_full_name # "" THEN pp_in.framework_full_name
              ELSE pp_in.result.Name
        /\ pp_out.result.Description =
              IF pp_in.framework_description # "" THEN pp_in.framework_description
              ELSE pp_in.result.Description

\* C24 witness: the tool named its own provider and gave a name and a
\* description; the configuration sets the full name only. The result carries
\* "AWS", the configuration's name and the tool's description.
C24_Witness ==
    /\ pp_out.kind = "return"
    /\ pp_in.provider = "aws"
    /\ pp_in.result.Provider = "tool"
    /\ pp_in.result.Name = "tool"
    /\ pp_in.framework_full_name = "config"
    /\ pp_in.framework_description = ""
    /\ pp_out.result.Provider = "AWS"
    /\ pp_out.result.Name = "config"
    /\ pp_out.result.Description = "tool"

\* The fields _complete_job writes are all set on the row.
CompletionFieldsSet(job) ==
    /\ job.progress_percentage = 100
    /\ job.progress_message = "Mapping completed successfully"
    /\ job.output_json_path # ""
    /\ job.completed_at

\* C25: a committed row with the status COMPLETED has progress 100, the message
\* "Mapping completed successfully", its path and its completion time set; the
\* path and the time appear in the commit that sets COMPLETED, not before it,
\* and no later commit changes the row.
C25_CompletedRowIsWhole ==
    [][\A j \in Jobs :
          /\ jobs[j].status = COMPLETED => CompletionFieldsSet(jobs[j])
          /\ jobs[j].status # COMPLETED =>
                (jobs[j].output_json_path = "" /\ ~jobs[j].completed_at)
          /\ jobs[j].status = COMPLETED => jobs'[j] = jobs[j]]_vars

\* C26: two jobs never share an artifact path: the JSON paths recorded on two
\* completed jobs differ, and the file at a completed job's recorded path
\* holds that job's own result.
C26_DistinctArtifactPaths ==
    /\ \A j, k \in ExportJobs :
          (j # k /\ ex_pc[j] = "done" /\ ex_pc[k] = "done") =>
              ex_paths[j].json # ex_paths[k].json
    /\ \A j \in ExportJobs :
          ex_pc[j] = "done" =>
              [path |-> ex_paths[j].json, owner |-> j] \in files

\* C27: while a batch is being executed its derived status does not go back:
\* a batch whose rows give "running" does not give "pending" after the next
\* commit of its driver.
C27_BatchStatusNeverRegresses ==
    [][\A b \in Batches :
          (/\ BatchStatusOf(BatchRows(b)) = "running"
           /\ \E t \in Drivers(b) : InFlight(t) /\ tasks'[t].outcome = "none")
          => BatchStatusOf(BatchRows(b))' # "pending"]_vars

\* C28: a response with the status "completed" carries the overall progress
\* 100, for every list of Job rows the query can return, the empty one
\* included. The rows looked at are those whose COMPLETED entries are as
\* _complete_job alone leaves them, at progress 100.
C28_CompletedMeansFullProgress ==
    (/\ resp.status = "completed"
     /\ \A i \in DOMAIN q_rows :
           q_rows[i].status = COMPLETED => q_rows[i].progress_percentage = 100)
    => resp.overall_progress = 100

\* C29: _extract_json returns a JSON object, or raises OutputParsingError or
\* ClaudeExecutionError; it returns no other JSON value (a list, a number, a
\* string, null) and never the envelope of the CLI itself.
C29_ExtractReturnsObjectOrFails ==
    (run_out.kind # "none" /\ run_in.proc = "exit0" /\ ~run_in.wait_expired) =>
        /\ run_out.kind = "return" => run_out.value \in Objects \cup {"R"}
        /\ run_out.kind = "raise" =>
              run_out.value \in {OutputParsingError, ClaudeExecutionError}

\* C30: a call of run_mapping fails by a timeout only when its own subprocess
\* has run for the whole configured timeout; the time the call spent queued
\* for a worker thread does not count.
C30_TimeoutOnlyAfterFullRun ==
    [][\A i \in Calls :
          (calls[i].outcome = "none" /\
           calls'[i].outcome \in {"subprocess_timeout", "wait_timeout"})
          => calls[i].ran = ClaudeTimeout]_vars

====
